---- MODULE Spec2Model ----
(***************************************************************************)
(* obj-observe: observers on object attributes and on dictionary keys.     *)
(*                                                                         *)
(* One universe holds the instances of one class.  The class is of one of  *)
(* four kinds, fixed in Init:                                              *)
(*   "dict"      instances with a __dict__ (tables stored on the instance) *)
(*   "slot_id"   __slots__ without __weakref__ (tables in the id map)      *)
(*   "slot_weak" __slots__ with __weakref__ (tables in the weak map)       *)
(*   "container" ObservableDict instances (and one plain dict, `plain`)    *)
(* Observers are plain functions, which _normalize_callback stores as they *)
(* are.  An observer's body is client code: while it runs it may call any  *)
(* operation of the library (a write, observe, a removal) and then return. *)
(* A write is therefore a frame on `stack`: WriteBegin runs the routine up *)
(* to the first observer call, CallbackReturn moves to the next observer,  *)
(* WriteReturn runs the end of the routine.                                *)
(***************************************************************************)
EXTENDS Integers, Sequences, FiniteSets, TLC

\* ---- bounds of the model
MaxObs == 2        \* most registrations held at one time, over all instances
MaxDepth == 2      \* deepest nesting of writes (a write made by an observer)
MaxRefcount == 3   \* largest value of the class counter
MaxCalls == 2      \* most operations the observers of one pass call

Insts == {"e1", "e2"}
Keys == {"k1", "k2"}
\* the attributes / keys the model uses on an instance
KeysOf(e) == IF e = "e1" THEN Keys ELSE {"k1"}
Callbacks == {"A", "B"}
None == "None"
Vals == {None, "v1"}
Absent == "absent"
Kinds == {"dict", "slot_id", "slot_weak", "container"}

VARIABLES
    kind,      \* the kind of the class of this universe
    exists,    \* exists[e]: the instance has been constructed
    store,     \* store[e][k]: the value of attribute / key k, or Absent
    plain,     \* the entries of the plain dict m (container kind)
    hasObs,    \* hasObs[e]: the observer table of e exists
    obs,       \* obs[e][k]: [has |-> key present, lst |-> its observer list]
    hasGuard,  \* hasGuard[e]: the guard table of e exists
    guard,     \* guard[e][k]: the guard flag (an absent flag reads as false)
    liveFin,   \* liveFin[e]: finalizers of e that are registered and not detached
    cls,       \* the attributes the library keeps on the class
    stack,     \* the writes in progress, innermost last
    last,      \* the observe call that has just returned, when it is the last step
    thr,       \* thr[t]: where thread t is in the operation it runs, and its locals
    lk,        \* the RLock objects made for the class and the thread holding each
    present,   \* present[e]: the keys the guard table of container e holds, where
               \* threads write containers (a flag that is absent reads as false)
    sub,       \* the attributes a subclass of the class holds itself, where the
               \* second instance is an instance of a subclass
    nest       \* nest[t]: the writes thread t is in, innermost last, where the
               \* observers of one instance write the other

vars == <<kind, exists, store, plain, hasObs, obs, hasGuard, guard, liveFin,
          cls, stack, last, thr, lk, present, sub, nest>>

\* the variables that only the steps of the later sections change
Apart == <<present, sub, nest>>

\* class S(P): pass -- a subclass that holds no attribute of the library
NoSub == [setattr |-> "inherited", original_setattr |-> "none",
          has_refcount |-> FALSE, observe_refcount |-> 0, observe_lock |-> FALSE]

\* ---- threads

Threads == {"t1", "t2"}
MaxThreadOps == 3  \* most operations one thread starts
\* most RLock objects made: one before the threads start, one for each observe
MaxLocks == 1 + Cardinality(Threads) * MaxThreadOps

\* a thread that runs no operation and has run none
IdleThread ==
    [pc |-> "idle", op |-> "none", ent |-> "-", key |-> "-", val |-> "-",
     lock |-> 0, old |-> "-", snap |-> <<>>, i |-> 0, fired |-> <<>>,
     first |-> FALSE, stale |-> FALSE, mode |-> "-", err |-> "none", n |-> 0]

\* no RLock made yet (cur = 0: the class has no __observe_lock__)
NoLocks == [cur |-> 0, made |-> 0, owner |-> [l \in 1..MaxLocks |-> "-"]]

NoList == [has |-> FALSE, lst |-> <<>>]
EmptyTable == [k \in Keys |-> NoList]
NoGuards == [k \in Keys |-> FALSE]
NoAttrs == [k \in Keys |-> Absent]

\* `not table`: a Python dict is falsy when it has no key
TableEmpty(t) == \A k \in Keys : ~t[k].has

\* the registrations of one key, as an observer that looks the table up sees them
Registered(h, o, e, k) == IF h[e] /\ o[e][k].has THEN o[e][k].lst ELSE <<>>

Count(s, x) == Cardinality({i \in 1..Len(s) : s[i] = x})

RECURSIVE SumLen(_, _)
SumLen(t, ks) ==
    IF ks = {} THEN 0
    ELSE LET k == CHOOSE x \in ks : TRUE IN Len(t[k].lst) + SumLen(t, ks \ {k})

\* the mutable state the operations work on, as one record
World == [hasObs |-> hasObs, obs |-> obs, hasGuard |-> hasGuard, guard |-> guard,
          liveFin |-> liveFin, cls |-> cls, stack |-> stack]

SetWorld(w) ==
    /\ hasObs' = w.hasObs
    /\ obs' = w.obs
    /\ hasGuard' = w.hasGuard
    /\ guard' = w.guard
    /\ liveFin' = w.liveFin
    /\ cls' = w.cls
    /\ stack' = w.stack

\* ---- the class

ClassInit == [setattr |-> "original", original_setattr |-> "none",
              has_refcount |-> FALSE, observe_refcount |-> 0,
              observe_lock |-> FALSE, storage |-> FALSE, storage_by_id |-> FALSE]

\* add_observer, "Install class-level patch if needed"
InstallPatch(c) ==
    IF c.original_setattr = "none"
    THEN [c EXCEPT !.original_setattr = c.setattr,
                   !.has_refcount = TRUE,
                   !.observe_refcount = 0,
                   !.observe_lock = TRUE,
                   !.setattr = "new_setattr"]
    ELSE c

\* the counter is decremented; at zero the original routine is restored
DecrementRefcount(c) ==
    IF c.has_refcount
    THEN IF c.observe_refcount - 1 <= 0 /\ c.original_setattr # "none"
         THEN [c EXCEPT !.setattr = c.original_setattr,
                        !.original_setattr = "none",
                        !.has_refcount = FALSE,
                        !.observe_refcount = 0]
         ELSE [c EXCEPT !.observe_refcount = @ - 1]
    ELSE c

\* add_observer._finalizer: the same steps, run when the instance is reclaimed
Finalizer(c) == DecrementRefcount(c)

RECURSIVE RunFinalizers(_, _)
RunFinalizers(c, n) == IF n = 0 THEN c ELSE RunFinalizers(Finalizer(c), n - 1)

\* ---- frames

\* a frame whose captured guard table is no longer the table of its instance
Orphan(stk, e) ==
    IF stk = <<>> THEN <<>>
    ELSE [i \in 1..Len(stk) |-> IF stk[i].ent = e THEN [stk[i] EXCEPT !.stale = TRUE]
                                ELSE stk[i]]

\* an operation called by the running observer is counted in the innermost pass
Touch(stk) ==
    IF stk = <<>> THEN <<>>
    ELSE [stk EXCEPT ![Len(stk)].calls = @ + 1]

Top == stack[Len(stack)]

\* a pass that ends where the list registered now ends, not where its copy ends
DoneLive(f) == f.i > Len(Registered(hasObs, obs, f.ent, f.key))

\* the loop over the copy of the list has called its last observer
Done(f) == f.i > Len(f.snap)

\* the second instance has not been used (or is not in use any more)
Unused(e) ==
    IF kind = "container" THEN ~exists[e]
    ELSE store[e] = NoAttrs /\ ~hasObs[e] /\ ~hasGuard[e] /\ liveFin[e] = 0

\* client code calls an operation on e: at top level, or in the observer the
\* innermost write called.  Observers that call operations are explored on the
\* first instance, in a universe whose second instance is unused.
CanCall(e) ==
    IF stack = <<>> THEN TRUE
    ELSE ~Done(Top) /\ Top.calls < MaxCalls /\ e = "e1" /\ Unused("e2")

\* ---- registration

\* list.remove(x): the first occurrence is removed
RemoveFirst(s, x) ==
    LET j == CHOOSE i \in 1..Len(s) : s[i] = x /\ \A m \in 1..(i - 1) : s[m] # x
    IN SubSeq(s, 1, j - 1) \o SubSeq(s, j + 1, Len(s))

\* hasattr(obj, '__observers__'): never true of an instance without a __dict__
HasObserversAttr(w, e) == kind = "dict" /\ w.hasObs[e]

\* a registration that replaces the list of the attribute instead of adding to it
ReplaceObservers(w, e, attr, cb) ==
    [w EXCEPT !.obs[e][attr] = [has |-> TRUE, lst |-> <<cb>>]]

\* ObservableDict._add_observer; add_observer, "Resolve storage" and the append
AppendObserver(w, e, attr, cb) ==
    [w EXCEPT !.obs[e][attr] = [has |-> TRUE, lst |-> Append(@.lst, cb)]]

\* add_observer, "Per-instance storage": the tables of a first-time instance
NewStorage(w, e) ==
    IF kind = "dict"
    THEN [w EXCEPT !.hasObs[e] = TRUE, !.obs[e] = EmptyTable,
                   !.hasGuard[e] = TRUE, !.guard[e] = NoGuards,
                   !.stack = Orphan(@, e)]
    ELSE [w EXCEPT !.hasObs[e] = TRUE, !.obs[e] = EmptyTable,
                   !.hasGuard[e] = TRUE, !.guard[e] = NoGuards,
                   !.stack = Orphan(@, e),
                   !.cls.storage = @ \/ kind = "slot_weak",
                   !.cls.storage_by_id = @ \/ kind = "slot_id",
                   !.liveFin[e] = IF kind = "slot_weak" THEN @ + 1 ELSE @]

add_observer(w, e, attr, cb) ==
    IF kind = "container"
    THEN AppendObserver(w, e, attr, cb)
    ELSE LET first_time_for_instance == ~HasObserversAttr(w, e)
             w1 == IF first_time_for_instance THEN NewStorage(w, e) ELSE w
             w2 == AppendObserver(w1, e, attr, cb)
             w3 == [w2 EXCEPT !.cls = InstallPatch(@)]
         IN IF first_time_for_instance
            THEN [w3 EXCEPT !.cls.observe_refcount = @ + 1]
            ELSE w3

\* ---- removal

\* remove_observers, the instance is left without observers: slotted storage
DropBucket(w, e) ==
    [w EXCEPT !.liveFin[e] = IF kind = "slot_weak" THEN @ - 1 ELSE @,
              !.hasObs[e] = FALSE, !.obs[e] = EmptyTable,
              !.hasGuard[e] = FALSE, !.guard[e] = NoGuards,
              !.stack = Orphan(@, e),
              !.cls = DecrementRefcount(@)]

\* dict.pop(attr, None) / dict.clear() on the observer table
PopOrClear(w, e, attr) ==
    IF attr = None THEN [w EXCEPT !.obs[e] = EmptyTable]
    ELSE [w EXCEPT !.obs[e][attr] = NoList]

remove_observers(w, e, attr) ==
    IF kind = "container"
    THEN [w |-> PopOrClear(w, e, attr),
          ret |-> IF attr = None THEN ~TableEmpty(w.obs[e]) ELSE w.obs[e][attr].has]
    ELSE IF ~HasObserversAttr(w, e)
    THEN IF kind # "dict" /\ w.hasObs[e]
         THEN LET removed == IF attr # None THEN w.obs[e][attr].has
                             ELSE ~TableEmpty(w.obs[e])
                  w1 == PopOrClear(w, e, attr)
              IN [w |-> IF TableEmpty(w1.obs[e]) THEN DropBucket(w1, e) ELSE w1,
                  ret |-> removed]
         ELSE [w |-> w, ret |-> FALSE]
    ELSE LET removed == IF attr # None THEN w.obs[e][attr].has
                        ELSE ~TableEmpty(w.obs[e])
             w1 == PopOrClear(w, e, attr)
         IN [w |-> IF TableEmpty(w1.obs[e])
                   THEN [w1 EXCEPT !.cls = DecrementRefcount(@)]
                   ELSE w1,
             ret |-> removed]

remove_observer(w, e, attr, cb) ==
    IF kind = "container"
    THEN IF ~TableEmpty(w.obs[e]) /\ w.obs[e][attr].has /\ Count(w.obs[e][attr].lst, cb) > 0
         THEN [w |-> [w EXCEPT !.obs[e][attr].lst = RemoveFirst(@, cb)], ret |-> TRUE]
         ELSE [w |-> w, ret |-> FALSE]
    ELSE IF ~w.hasObs[e] \/ ~w.obs[e][attr].has \/ w.obs[e][attr].lst = <<>>
            \/ Count(w.obs[e][attr].lst, cb) = 0
    THEN [w |-> w, ret |-> FALSE]
    ELSE LET lst == RemoveFirst(w.obs[e][attr].lst, cb)
             w1 == [w EXCEPT !.obs[e][attr].lst = lst]
             w2 == [w1 EXCEPT !.obs[e][attr] = NoList]
         IN [w |-> IF lst # <<>> THEN w1
                   ELSE IF TableEmpty(w2.obs[e]) THEN remove_observers(w2, e, None).w
                   ELSE w2,
             ret |-> TRUE]

clear_all(w, e) == remove_observers(w, e, None)

\* ---- writes

\* an old value that reads the slot as it is, with no default for a missing one
OldValueRaw(e, k) == store[e][k]

\* getattr(self, name, None) / dict.get(key): a missing value reads as None
OldValue(e, k) == IF store[e][k] = Absent THEN None ELSE store[e][k]

\* a routine that looks a fixed-layout instance up in the id-keyed map only
RouteByIdOnly(w, e, k) ==
    IF kind = "container" THEN IF w.guard[e][k] THEN "through" ELSE "notify"
    ELSE IF w.cls.setattr = "original" \/ ~w.cls.observe_lock THEN "original"
    ELSE IF kind = "slot_weak" \/ (kind # "dict" /\ ~w.hasObs[e]) THEN "unobserved"
    ELSE IF w.hasGuard[e] /\ w.guard[e][k] THEN "through"
    ELSE "notify"

\* which path of the mutation routine a write of e.k takes
\*   "original"   the class routine is the original one
\*   "unobserved" new_setattr finds no storage for a slotted instance
\*   "through"    the guard flag of k is set: the write is applied, nothing fires
\*   "notify"     the flag is set, the write applied and the observers called
Route(w, e, k) ==
    IF kind = "container"
    THEN IF w.guard[e][k] THEN "through" ELSE "notify"
    ELSE IF w.cls.setattr = "original" \/ ~w.cls.observe_lock THEN "original"
    ELSE IF kind # "dict" /\ ~w.hasObs[e] THEN "unobserved"
    ELSE IF w.hasGuard[e] /\ w.guard[e][k] THEN "through"
    ELSE "notify"

\* a snapshot taken over the lists of every instance of the class
SnapshotOfClass(w, e, k) ==
    Registered(w.hasObs, w.obs, "e1", k) \o Registered(w.hasObs, w.obs, "e2", k)

\* list(observers_map[name]) when name is in the table the routine resolved
Snapshot(w, e, k) == IF w.hasObs[e] /\ w.obs[e][k].has THEN w.obs[e][k].lst ELSE <<>>

\* a pass for this key of this instance is on the stack
InPass(stk, e, k) ==
    \E i \in 1..Len(stk) : stk[i].ent = e /\ stk[i].key = k /\ stk[i].mode = "notify"

NoOp == [op |-> "none", ent |-> "-", key |-> "-", cb |-> "-"]

\* the tables and the class state an operation can change
Tables(w) == <<w.hasObs, w.obs, w.hasGuard, w.guard, w.cls>>

\* the registrations of one instance
Registrations(w, e) == IF w.hasObs[e] THEN SumLen(w.obs[e], Keys) ELSE 0

\* the registrations of the universe
TotalRegistrations(w) == Registrations(w, "e1") + Registrations(w, "e2")

\* ObservableDict.__setitem__ / new_setattr up to the first observer call
WriteBegin(e, k, v) ==
    /\ CanCall(e)
    /\ exists[e]
    /\ Len(stack) < MaxDepth
    /\ LET mode == Route(World, e, k)
           snap == IF mode = "notify" THEN Snapshot(World, e, k) ELSE <<>>
           frame == [ent |-> e, key |-> k, val |-> v, mode |-> mode,
                     old |-> OldValue(e, k), prior |-> store[e][k],
                     snap |-> snap, i |-> 1,
                     fired |-> IF snap = <<>> THEN <<>> ELSE <<snap[1]>>,
                     pre |-> Registered(hasObs, obs, e, k),
                     calls |-> 0, stale |-> FALSE,
                     inner |-> InPass(stack, e, k),
                     after |-> IF stack = <<>> /\ last.op = "observe"
                                  /\ last.ent = e /\ last.key = k
                               THEN last.cb ELSE "-"]
       IN /\ store' = [store EXCEPT ![e][k] = v]
          /\ stack' = Append(Touch(stack), frame)
          /\ IF mode = "notify"
             THEN /\ guard' = [guard EXCEPT ![e][k] = TRUE]
                  /\ hasGuard' = [hasGuard EXCEPT ![e] = TRUE]
             ELSE UNCHANGED <<guard, hasGuard>>
    /\ last' = NoOp
    /\ UNCHANGED <<Apart, thr, lk, kind, exists, plain, hasObs, obs, liveFin, cls>>

\* the running observer returns: the loop calls the next observer of the snapshot
CallbackReturn ==
    /\ stack # <<>>
    /\ ~Done(Top)
    /\ LET f == Top
           n == f.i + 1
       IN stack' = [stack EXCEPT ![Len(stack)] =
                       [f EXCEPT !.i = n,
                                 !.fired = IF n <= Len(f.snap)
                                           THEN Append(@, f.snap[n]) ELSE @]]
    /\ UNCHANGED <<Apart, thr, lk, kind, exists, store, plain, hasObs, obs, hasGuard, guard,
                   liveFin, cls, last>>

\* the end of the routine: is_observing[name] = False on the table it captured
WriteReturn ==
    /\ stack # <<>>
    /\ Done(Top)
    /\ guard' = IF Top.mode = "notify" /\ ~Top.stale
                THEN [guard EXCEPT ![Top.ent][Top.key] = FALSE]
                ELSE guard
    /\ stack' = SubSeq(stack, 1, Len(stack) - 1)
    /\ last' = NoOp
    /\ UNCHANGED <<Apart, thr, lk, kind, exists, store, plain, hasObs, obs, hasGuard, liveFin, cls>>

\* ---- the operations of the interface

Called(w) == [w EXCEPT !.stack = Touch(@)]

\* the call observe(e, k, cb) that has just returned to the top level
Observed(e, k, cb) ==
    IF stack = <<>> THEN [op |-> "observe", ent |-> e, key |-> k, cb |-> cb] ELSE NoOp

\* observe(obj, attr, callback) on an object or on an ObservableDict
Observe(e, k, cb) ==
    /\ CanCall(e)
    /\ exists[e]
    /\ kind # "container" => /\ cls.observe_refcount < MaxRefcount
                             /\ liveFin[e] < MaxRefcount
    /\ LET w == add_observer(Called(World), e, k, cb)
       IN /\ TotalRegistrations(w) <= MaxObs
          /\ SetWorld(w)
          /\ last' = Observed(e, k, cb)
    /\ UNCHANGED <<Apart, thr, lk, kind, exists, store, plain>>

\* observe(m, attr, callback) on the plain dict m: ObservableDict(m) is observed
ObserveWrap(e, k, cb) ==
    /\ CanCall(e)
    /\ kind = "container"
    /\ ~exists[e]
    /\ exists' = [exists EXCEPT ![e] = TRUE]
    /\ store' = [store EXCEPT ![e] = plain]
    /\ LET w == add_observer(Called(World), e, k, cb)
       IN /\ TotalRegistrations(w) <= MaxObs
          /\ SetWorld(w)
          /\ last' = Observed(e, k, cb)
    /\ UNCHANGED <<Apart, thr, lk, kind, plain>>

RemoveObservers(e, attr) ==
    /\ CanCall(e)
    /\ exists[e]
    /\ LET r == remove_observers(Called(World), e, attr)
       IN /\ SetWorld(r.w)
          /\ last' = NoOp
    /\ UNCHANGED <<Apart, thr, lk, kind, exists, store, plain>>

RemoveObserver(e, k, cb) ==
    /\ CanCall(e)
    /\ exists[e]
    /\ LET r == remove_observer(Called(World), e, k, cb)
       IN /\ SetWorld(r.w)
          /\ last' = NoOp
    /\ UNCHANGED <<Apart, thr, lk, kind, exists, store, plain>>

ClearAll(e) ==
    /\ CanCall(e)
    /\ exists[e]
    /\ LET r == clear_all(Called(World), e)
       IN /\ SetWorld(r.w)
          /\ last' = NoOp
    /\ UNCHANGED <<Apart, thr, lk, kind, exists, store, plain>>

\* a weak-referenceable slotted instance is reclaimed: the weak map drops its
\* entry and its live finalizers run; the name e then denotes a new instance
Reclaim(e) ==
    /\ CanCall(e)
    /\ kind = "slot_weak"
    /\ \A i \in 1..Len(stack) : stack[i].ent # e
    /\ hasObs' = [hasObs EXCEPT ![e] = FALSE]
    /\ obs' = [obs EXCEPT ![e] = EmptyTable]
    /\ hasGuard' = [hasGuard EXCEPT ![e] = FALSE]
    /\ guard' = [guard EXCEPT ![e] = NoGuards]
    /\ cls' = RunFinalizers(cls, liveFin[e])
    /\ liveFin' = [liveFin EXCEPT ![e] = 0]
    /\ store' = [store EXCEPT ![e] = NoAttrs]
    /\ stack' = Touch(stack)
    /\ last' = NoOp
    /\ UNCHANGED <<Apart, thr, lk, kind, exists, plain>>

\* the plain dicts m the model passes to observe
PlainDicts == {[k1 |-> "v1", k2 |-> Absent], [k1 |-> None, k2 |-> "v1"]}


Init ==
    /\ kind \in Kinds
    /\ exists = [e \in Insts |-> kind # "container" \/ e = "e1"]
    /\ store = [e \in Insts |-> NoAttrs]
    /\ plain \in IF kind = "container" THEN PlainDicts ELSE {NoAttrs}
    /\ hasObs = [e \in Insts |-> kind = "container"]
    /\ obs = [e \in Insts |-> EmptyTable]
    /\ hasGuard = [e \in Insts |-> kind = "container"]
    /\ guard = [e \in Insts |-> NoGuards]
    /\ liveFin = [e \in Insts |-> 0]
    /\ cls = ClassInit
    /\ stack = <<>>
    /\ last = NoOp
    /\ thr = [t \in Threads |-> IdleThread]
    /\ lk = NoLocks
    /\ present = [e \in Insts |-> {}]
    /\ sub = NoSub
    /\ nest = [t \in Threads |-> <<>>]

Next ==
    \/ \E e \in Insts : \E k \in KeysOf(e), v \in Vals : WriteBegin(e, k, v)
    \/ CallbackReturn
    \/ WriteReturn
    \/ \E e \in Insts, cb \in Callbacks : \E k \in KeysOf(e) : Observe(e, k, cb)
    \/ \E e \in Insts, cb \in Callbacks : \E k \in KeysOf(e) : ObserveWrap(e, k, cb)
    \/ \E e \in Insts : \E attr \in KeysOf(e) \cup {None} : RemoveObservers(e, attr)
    \/ \E e \in Insts, cb \in Callbacks : \E k \in KeysOf(e) : RemoveObserver(e, k, cb)
    \/ \E e \in Insts : ClearAll(e)
    \/ \E e \in Insts : Reclaim(e)

Spec == Init /\ [][Next]_vars

\* ---- observers that raise

\* a raise that undoes the write before it leaves the routine
RaiseRollback ==
    /\ stack # <<>>
    /\ ~Done(Top)
    /\ stack' = SubSeq(stack, 1, Len(stack) - 1)
    /\ store' = [store EXCEPT ![Top.ent][Top.key] = Top.prior]
    /\ last' = [op |-> "raise", ent |-> Top.ent, key |-> Top.key,
                cb |-> Top.snap[Top.i], frame |-> Top, depth |-> Len(stack)]
    /\ UNCHANGED <<Apart, thr, lk, kind, exists, plain, hasObs, obs, hasGuard, guard, liveFin, cls>>

\* observer(old_value, value) raises: the routine has no try block, so the
\* exception leaves the loop and the routine at once and reaches the code that
\* made the write (client code at top level, or the observer of the pass
\* below, which may handle it or let it go on: Raise again).  The assignment
\* that clears the guard flag is not run.
Raise ==
    /\ stack # <<>>
    /\ ~Done(Top)
    /\ stack' = SubSeq(stack, 1, Len(stack) - 1)
    /\ last' = [op |-> "raise", ent |-> Top.ent, key |-> Top.key,
                cb |-> Top.snap[Top.i], frame |-> Top, depth |-> Len(stack)]
    /\ UNCHANGED <<Apart, thr, lk, kind, exists, store, plain, hasObs, obs, hasGuard, guard, liveFin, cls>>

NextRaise == Next \/ Raise

SpecRaise == Init /\ [][NextRaise]_vars

\* ---- threads: a write, statement by statement

\* the variables that only the single-threaded operations change
SeqOnly == <<Apart, kind, exists, plain, liveFin, stack, last>>

\* what self.__class__.__original_setattr__(self, name, value) does: the
\* attribute may have been deleted, or may hold a replacement routine, which
\* calls it again without end
OriginalOutcome ==
    IF cls.original_setattr = "none" THEN "AttributeError"
    ELSE IF cls.original_setattr = "new_setattr" THEN "RecursionError"
    ELSE "stored"

\* the operation of thread t is over: normally, or with an exception
Finish(t, mode, err) ==
    [thr EXCEPT ![t].pc = "idle", ![t].mode = mode, ![t].err = err, ![t].lock = 0]

Release(l) == IF l = 0 THEN lk ELSE [lk EXCEPT !.owner[l] = "-"]

\* obj.name = value: the routine the class holds now is called
TCall(t, e, k, v) ==
    /\ thr[t].pc = "idle"
    /\ thr[t].n < MaxThreadOps
    /\ LET me == [IdleThread EXCEPT !.op = "write", !.ent = e, !.key = k, !.val = v,
                                    !.n = thr[t].n + 1]
       IN IF cls.setattr = "original"
          THEN /\ store' = [store EXCEPT ![e][k] = v]
               /\ thr' = [thr EXCEPT ![t] = [me EXCEPT !.mode = "original"]]
          ELSE /\ thr' = [thr EXCEPT ![t] = [me EXCEPT !.pc = "getlock"]]
               /\ UNCHANGED store
    /\ UNCHANGED <<SeqOnly, hasObs, obs, hasGuard, guard, cls, lk>>

\* lock = getattr(self.__class__, '__observe_lock__', None)
TGetLock(t) ==
    /\ thr[t].pc = "getlock"
    /\ IF lk.cur = 0
       THEN IF OriginalOutcome = "stored"
            THEN /\ store' = [store EXCEPT ![thr[t].ent][thr[t].key] = thr[t].val]
                 /\ thr' = Finish(t, "original", "none")
            ELSE /\ thr' = Finish(t, "original", OriginalOutcome)
                 /\ UNCHANGED store
       ELSE /\ thr' = [thr EXCEPT ![t].pc = "acquire", ![t].lock = lk.cur]
            /\ UNCHANGED store
    /\ UNCHANGED <<SeqOnly, hasObs, obs, hasGuard, guard, cls, lk>>

\* a with block that takes the lock without waiting for its holder
TAcquireNoWait(t) ==
    /\ thr[t].pc = "acquire"
    /\ lk' = [lk EXCEPT !.owner[thr[t].lock] = t]
    /\ thr' = [thr EXCEPT ![t].pc = "enter"]
    /\ UNCHANGED <<SeqOnly, store, hasObs, obs, hasGuard, guard, cls>>

\* with lock: the thread waits until no other thread holds this RLock
TAcquire(t) ==
    /\ thr[t].pc = "acquire"
    /\ lk.owner[thr[t].lock] = "-"
    /\ lk' = [lk EXCEPT !.owner[thr[t].lock] = t]
    /\ thr' = [thr EXCEPT ![t].pc = "enter"]
    /\ UNCHANGED <<SeqOnly, store, hasObs, obs, hasGuard, guard, cls>>

\* the storage lookup and the guard test of the routine
TEnter(t) ==
    /\ thr[t].pc = "enter"
    /\ LET e == thr[t].ent
           k == thr[t].key
           mode == IF kind # "dict" /\ ~hasObs[e] THEN "unobserved"
                   ELSE IF hasGuard[e] /\ guard[e][k] THEN "through"
                   ELSE "notify"
       IN /\ hasGuard' = IF kind = "dict" THEN [hasGuard EXCEPT ![e] = TRUE] ELSE hasGuard
          /\ IF mode = "notify"
             THEN /\ thr' = [thr EXCEPT ![t].pc = "setguard", ![t].mode = mode]
                  /\ UNCHANGED <<store, lk>>
             ELSE /\ lk' = Release(thr[t].lock)
                  /\ IF OriginalOutcome = "stored"
                     THEN /\ store' = [store EXCEPT ![e][k] = thr[t].val]
                          /\ thr' = Finish(t, mode, "none")
                     ELSE /\ thr' = Finish(t, mode, OriginalOutcome)
                          /\ UNCHANGED store
    /\ UNCHANGED <<SeqOnly, hasObs, obs, guard, cls>>

\* is_observing[name] = True; old_value = getattr(self, name, None)
TSetGuard(t) ==
    /\ thr[t].pc = "setguard"
    /\ guard' = [guard EXCEPT ![thr[t].ent][thr[t].key] = TRUE]
    /\ thr' = [thr EXCEPT ![t].pc = "store", ![t].old = OldValue(thr[t].ent, thr[t].key)]
    /\ UNCHANGED <<SeqOnly, store, hasObs, obs, hasGuard, cls, lk>>

\* the original routine stores the value; the list of the attribute is copied
TStore(t) ==
    /\ thr[t].pc = "store"
    /\ IF OriginalOutcome = "stored"
       THEN LET snap == Snapshot(World, thr[t].ent, thr[t].key)
            IN /\ store' = [store EXCEPT ![thr[t].ent][thr[t].key] = thr[t].val]
               /\ thr' = [thr EXCEPT ![t].snap = snap, ![t].i = 1,
                                     ![t].pc = IF snap = <<>> THEN "exit" ELSE "fire"]
               /\ UNCHANGED lk
       ELSE /\ thr' = Finish(t, "notify", OriginalOutcome)
            /\ lk' = Release(thr[t].lock)
            /\ UNCHANGED store
    /\ UNCHANGED <<SeqOnly, hasObs, obs, hasGuard, guard, cls>>

\* observer(old_value, value) is called and returns
TFire(t) ==
    /\ thr[t].pc = "fire"
    /\ LET me == thr[t]
       IN thr' = [thr EXCEPT ![t].fired = Append(@, <<me.snap[me.i], me.old, me.val>>),
                             ![t].i = me.i + 1,
                             ![t].pc = IF me.i + 1 > Len(me.snap) THEN "exit" ELSE "fire"]
    /\ UNCHANGED <<SeqOnly, store, hasObs, obs, hasGuard, guard, cls, lk>>

\* is_observing[name] = False; the with block releases the lock
TExit(t) ==
    /\ thr[t].pc = "exit"
    /\ guard' = IF thr[t].stale THEN guard
                ELSE [guard EXCEPT ![thr[t].ent][thr[t].key] = FALSE]
    /\ lk' = Release(thr[t].lock)
    /\ thr' = Finish(t, "notify", "none")
    /\ UNCHANGED <<SeqOnly, store, hasObs, obs, hasGuard, cls>>

\* ---- threads that write

FreshWorld ==
    [hasObs |-> [e \in Insts |-> FALSE], obs |-> [e \in Insts |-> EmptyTable],
     hasGuard |-> [e \in Insts |-> FALSE], guard |-> [e \in Insts |-> NoGuards],
     liveFin |-> [e \in Insts |-> 0], cls |-> ClassInit, stack |-> <<>>]

\* the class after observe calls made before the threads start
ObservedWorlds ==
    LET w1 == add_observer(FreshWorld, "e1", "k1", "A")
    IN {w1, add_observer(w1, "e2", "k1", "B"), add_observer(w1, "e1", "k1", "B")}

InitObserved(kinds, worlds) ==
    /\ kind \in kinds
    /\ exists = [e \in Insts |-> TRUE]
    /\ store = [e \in Insts |-> NoAttrs]
    /\ plain = NoAttrs
    /\ \E w \in worlds :
          /\ hasObs = w.hasObs
          /\ obs = w.obs
          /\ hasGuard = w.hasGuard
          /\ guard = w.guard
          /\ liveFin = w.liveFin
          /\ cls = w.cls
          /\ lk = IF w.cls.observe_lock THEN [NoLocks EXCEPT !.cur = 1, !.made = 1]
                  ELSE NoLocks
    /\ stack = <<>>
    /\ last = NoOp
    /\ thr = [t \in Threads |-> IdleThread]
    /\ present = [e \in Insts |-> {}]
    /\ sub = NoSub
    /\ nest = [t \in Threads |-> <<>>]

InitWriters == InitObserved({"dict", "slot_id", "slot_weak"}, ObservedWorlds)

\* the threads write one attribute, of either instance
WriteStep(t) ==
    \/ \E e \in Insts, v \in Vals : TCall(t, e, "k1", v)
    \/ TGetLock(t)
    \/ TAcquire(t)
    \/ TEnter(t)
    \/ TSetGuard(t)
    \/ TStore(t)
    \/ TFire(t)
    \/ TExit(t)

NextWriters == \E t \in Threads : WriteStep(t)

\* every thread that can take a step takes one in the end
SpecWriters ==
    InitWriters /\ [][NextWriters]_vars /\ \A t \in Threads : WF_vars(WriteStep(t))

\* ---- threads that observe and remove (instances with __dict__)

\* the guard table a write of e holds is not the table of e any more
OrphanThreads(e) ==
    [t \in Threads |->
        IF thr[t].op = "write" /\ thr[t].ent = e /\ thr[t].pc \in {"setguard", "store", "fire", "exit"}
        THEN [thr[t] EXCEPT !.stale = TRUE] ELSE thr[t]]

\* add_observer up to the append: the tables of a first-time instance, the list
TObserveBegin(t, e, k, cb) ==
    /\ thr[t].pc = "idle"
    /\ thr[t].n < MaxThreadOps
    /\ LET first == ~HasObserversAttr(World, e)
           w == AppendObserver(IF first THEN NewStorage(World, e) ELSE World, e, k, cb)
           others == IF first THEN OrphanThreads(e) ELSE thr
       IN /\ hasObs' = w.hasObs
          /\ obs' = w.obs
          /\ hasGuard' = w.hasGuard
          /\ guard' = w.guard
          /\ thr' = [others EXCEPT ![t] = [IdleThread EXCEPT !.pc = "chk", !.op = "observe",
                         !.ent = e, !.key = k, !.first = first, !.n = thr[t].n + 1]]
    /\ UNCHANGED <<SeqOnly, store, cls, lk>>

\* if not hasattr(cls, '__original_setattr__')
TCheckPatch(t) ==
    /\ thr[t].pc = "chk"
    /\ thr' = [thr EXCEPT ![t].pc = IF cls.original_setattr = "none" THEN "save" ELSE "incr"]
    /\ UNCHANGED <<SeqOnly, store, hasObs, obs, hasGuard, guard, cls, lk>>

\* cls.__original_setattr__ = cls.__setattr__: whatever routine the class holds now
TSave(t) ==
    /\ thr[t].pc = "save"
    /\ cls' = [cls EXCEPT !.original_setattr = cls.setattr]
    /\ thr' = [thr EXCEPT ![t].pc = "zero"]
    /\ UNCHANGED <<SeqOnly, store, hasObs, obs, hasGuard, guard, lk>>

\* cls.__observe_refcount__ = 0; cls.__observe_lock__ = threading.RLock()
TZero(t) ==
    /\ thr[t].pc = "zero"
    /\ cls' = [cls EXCEPT !.has_refcount = TRUE, !.observe_refcount = 0, !.observe_lock = TRUE]
    /\ lk' = [lk EXCEPT !.made = @ + 1, !.cur = lk.made + 1]
    /\ thr' = [thr EXCEPT ![t].pc = "patch"]
    /\ UNCHANGED <<SeqOnly, store, hasObs, obs, hasGuard, guard>>

\* cls.__setattr__ = new_setattr
TPatch(t) ==
    /\ thr[t].pc = "patch"
    /\ cls' = [cls EXCEPT !.setattr = "new_setattr"]
    /\ thr' = [thr EXCEPT ![t].pc = "incr"]
    /\ UNCHANGED <<SeqOnly, store, hasObs, obs, hasGuard, guard, lk>>

\* if first_time_for_instance: cls.__observe_refcount__ += 1
TIncr(t) ==
    /\ thr[t].pc = "incr"
    /\ IF ~thr[t].first
       THEN /\ thr' = Finish(t, "-", "none")
            /\ UNCHANGED cls
       ELSE IF cls.has_refcount
       THEN /\ cls' = [cls EXCEPT !.observe_refcount = @ + 1]
            /\ thr' = Finish(t, "-", "none")
       ELSE /\ thr' = Finish(t, "-", "AttributeError")
            /\ UNCHANGED cls
    /\ UNCHANGED <<SeqOnly, store, hasObs, obs, hasGuard, guard, lk>>

\* remove_observers(obj): no table, or the table is cleared
TRemoveBegin(t, e) ==
    /\ thr[t].pc = "idle"
    /\ thr[t].n < MaxThreadOps
    /\ LET me == [IdleThread EXCEPT !.op = "remove", !.ent = e, !.n = thr[t].n + 1]
       IN IF ~HasObserversAttr(World, e)
          THEN /\ thr' = [thr EXCEPT ![t] = me]
               /\ UNCHANGED obs
          ELSE /\ thr' = [thr EXCEPT ![t] = [me EXCEPT !.pc = "dec"]]
               /\ obs' = [obs EXCEPT ![e] = EmptyTable]
    /\ UNCHANGED <<SeqOnly, store, hasObs, hasGuard, guard, cls, lk>>

\* if (not obj.__observers__) and hasattr(cls, '__observe_refcount__'): decrement
TDec(t) ==
    /\ thr[t].pc = "dec"
    /\ IF TableEmpty(obs[thr[t].ent]) /\ cls.has_refcount
       THEN /\ cls' = [cls EXCEPT !.observe_refcount = @ - 1]
            /\ thr' = [thr EXCEPT ![t].pc = "restore"]
       ELSE /\ thr' = Finish(t, "-", "none")
            /\ UNCHANGED cls
    /\ UNCHANGED <<SeqOnly, store, hasObs, obs, hasGuard, guard, lk>>

\* if the counter is <= 0 and the original is saved: restore it, delete both
TRestore(t) ==
    /\ thr[t].pc = "restore"
    /\ IF ~cls.has_refcount
       THEN /\ thr' = Finish(t, "-", "AttributeError")
            /\ UNCHANGED cls
       ELSE /\ thr' = Finish(t, "-", "none")
            /\ cls' = IF cls.observe_refcount <= 0 /\ cls.original_setattr # "none"
                      THEN [cls EXCEPT !.setattr = cls.original_setattr,
                                       !.original_setattr = "none",
                                       !.has_refcount = FALSE, !.observe_refcount = 0]
                      ELSE cls
    /\ UNCHANGED <<SeqOnly, store, hasObs, obs, hasGuard, guard, lk>>

ObserveStep(t) ==
    \/ \E e \in Insts : TObserveBegin(t, e, "k1", "A")
    \/ TCheckPatch(t)
    \/ TSave(t)
    \/ TZero(t)
    \/ TPatch(t)
    \/ TIncr(t)

RemoveStep(t) ==
    \/ \E e \in Insts : TRemoveBegin(t, e)
    \/ TDec(t)
    \/ TRestore(t)

\* the writes of these threads go to one attribute
WriteOneStep(t) ==
    \/ \E e \in Insts : TCall(t, e, "k1", "v1")
    \/ TGetLock(t)
    \/ TAcquire(t)
    \/ TEnter(t)
    \/ TSetGuard(t)
    \/ TStore(t)
    \/ TFire(t)
    \/ TExit(t)

InitThreads == InitObserved({"dict"}, {FreshWorld} \cup ObservedWorlds)

NextThreads == \E t \in Threads : WriteOneStep(t) \/ ObserveStep(t) \/ RemoveStep(t)

SpecThreads == InitThreads /\ [][NextThreads]_vars

\* ---- observers that write the keys of the entity written

MaxChain == 4      \* deepest nesting of writes in a chain of observers

\* a routine whose guard is one flag for the whole entity
RoutePerEntity(w, e, k) ==
    IF kind = "container"
    THEN IF \E k2 \in Keys : w.guard[e][k2] THEN "through" ELSE "notify"
    ELSE IF w.cls.setattr = "original" \/ ~w.cls.observe_lock THEN "original"
    ELSE IF kind # "dict" /\ ~w.hasObs[e] THEN "unobserved"
    ELSE IF w.hasGuard[e] /\ \E k2 \in Keys : w.guard[e][k2] THEN "through"
    ELSE "notify"

\* the guard test of both routines, is_observing.get(name): one flag per key
RouteOfKey(w, e, k) == Route(w, e, k)

\* the containers of the universe as ObservableDict.__init__ leaves them
ContainerWorld ==
    [FreshWorld EXCEPT !.hasObs = [e \in Insts |-> TRUE],
                       !.hasGuard = [e \in Insts |-> TRUE]]

\* the entities after the observe calls made before the first write
ChainWorlds ==
    LET base == IF kind = "container" THEN ContainerWorld ELSE FreshWorld
        w0 == add_observer(add_observer(base, "e1", "k1", "A"), "e1", "k2", "B")
    IN {w0, add_observer(w0, "e1", "k1", "B"), add_observer(w0, "e2", "k1", "A")}

InitChain ==
    /\ kind \in Kinds
    /\ exists = [e \in Insts |-> TRUE]
    /\ store = [e \in Insts |-> NoAttrs]
    /\ plain = NoAttrs
    /\ \E w \in ChainWorlds :
          /\ hasObs = w.hasObs
          /\ obs = w.obs
          /\ hasGuard = w.hasGuard
          /\ guard = w.guard
          /\ liveFin = w.liveFin
          /\ cls = w.cls
    /\ stack = <<>>
    /\ last = NoOp
    /\ thr = [t \in Threads |-> IdleThread]
    /\ lk = NoLocks
    /\ present = [e \in Insts |-> {}]
    /\ sub = NoSub
    /\ nest = [t \in Threads |-> <<>>]

\* one more pass of key k has begun while the writes of stk were in progress
CountPass(stk, k) ==
    IF stk = <<>> THEN <<>>
    ELSE [i \in 1..Len(stk) |-> [stk[i] EXCEPT !.passes[k] = @ + 1]]

\* ObservableDict.__setitem__ / new_setattr up to the first observer call, for
\* a write made by client code or by the running observer to a key of the
\* entity whose write called it; passes[k] of a frame counts the notification
\* passes of k begun since that write began, its own included
ChainWrite(e, k, v) ==
    /\ exists[e]
    /\ IF stack = <<>> THEN TRUE
       ELSE ~Done(Top) /\ Top.calls < MaxCalls /\ e = Top.ent
    /\ Len(stack) < MaxChain
    /\ LET mode == RouteOfKey(World, e, k)
           snap == IF mode = "notify" THEN Snapshot(World, e, k) ELSE <<>>
           frame == [ent |-> e, key |-> k, val |-> v, mode |-> mode,
                     old |-> OldValue(e, k), prior |-> store[e][k],
                     snap |-> snap, i |-> 1,
                     fired |-> IF snap = <<>> THEN <<>> ELSE <<snap[1]>>,
                     pre |-> Registered(hasObs, obs, e, k),
                     calls |-> 0, stale |-> FALSE,
                     inner |-> InPass(stack, e, k),
                     after |-> "-",
                     passes |-> [k2 \in Keys |-> 0]]
           below == Touch(stack)
       IN /\ store' = [store EXCEPT ![e][k] = v]
          /\ IF mode = "notify"
             THEN /\ stack' = CountPass(Append(below, frame), k)
                  /\ guard' = [guard EXCEPT ![e][k] = TRUE]
                  /\ hasGuard' = [hasGuard EXCEPT ![e] = TRUE]
             ELSE /\ stack' = Append(below, frame)
                  /\ UNCHANGED <<guard, hasGuard>>
    /\ last' = NoOp
    /\ UNCHANGED <<Apart, thr, lk, kind, exists, plain, hasObs, obs, liveFin, cls>>

\* the running observer returns, or the routine reaches its end
ChainReturn == CallbackReturn \/ WriteReturn

NextChain ==
    \/ \E e \in Insts : \E k \in KeysOf(e), v \in Vals : ChainWrite(e, k, v)
    \/ CallbackReturn
    \/ WriteReturn

\* observers terminate: the observer that runs returns in the end
SpecChain == InitChain /\ [][NextChain]_vars /\ WF_vars(ChainReturn)

\* ---- threads that write a container: ObservableDict.__setitem__ by statement

\* what the steps of a container write leave alone
DictOnly ==
    <<kind, exists, plain, hasObs, obs, hasGuard, liveFin, cls, stack, last, lk, sub, nest>>

\* d[key] = value; `key not in self.__is_observing` is evaluated
DCall(t, e, k, v) ==
    /\ thr[t].pc = "idle"
    /\ thr[t].n < MaxThreadOps
    /\ thr' = [thr EXCEPT ![t] =
                  [IdleThread EXCEPT !.op = "write", !.ent = e, !.key = k, !.val = v,
                                     !.n = thr[t].n + 1,
                                     !.first = k \notin present[e],
                                     !.pc = IF k \notin present[e] THEN "dinit" ELSE "dtest"]]
    /\ UNCHANGED <<DictOnly, store, guard, present>>

\* self.__is_observing[key] = False, for the key the test found absent
DInit(t) ==
    /\ thr[t].pc = "dinit"
    /\ guard' = [guard EXCEPT ![thr[t].ent][thr[t].key] = FALSE]
    /\ present' = [present EXCEPT ![thr[t].ent] = @ \cup {thr[t].key}]
    /\ thr' = [thr EXCEPT ![t].pc = "dtest"]
    /\ UNCHANGED <<DictOnly, store>>

\* if self.__is_observing.get(key): super().__setitem__(key, value); return
DTest(t) ==
    /\ thr[t].pc = "dtest"
    /\ LET e == thr[t].ent
           k == thr[t].key
       IN IF guard[e][k]
          THEN /\ store' = [store EXCEPT ![e][k] = thr[t].val]
               /\ thr' = Finish(t, "through", "none")
          ELSE /\ thr' = [thr EXCEPT ![t].pc = "dset", ![t].mode = "notify"]
               /\ UNCHANGED store
    /\ UNCHANGED <<DictOnly, guard, present>>

\* self.__is_observing[key] = True; old_value = self.get(key)
DSetGuard(t) ==
    /\ thr[t].pc = "dset"
    /\ guard' = [guard EXCEPT ![thr[t].ent][thr[t].key] = TRUE]
    /\ present' = [present EXCEPT ![thr[t].ent] = @ \cup {thr[t].key}]
    /\ thr' = [thr EXCEPT ![t].pc = "dstore", ![t].old = OldValue(thr[t].ent, thr[t].key)]
    /\ UNCHANGED <<DictOnly, store>>

\* super().__setitem__(key, value); the list of the key is copied
DStore(t) ==
    /\ thr[t].pc = "dstore"
    /\ LET snap == Snapshot(World, thr[t].ent, thr[t].key)
       IN /\ store' = [store EXCEPT ![thr[t].ent][thr[t].key] = thr[t].val]
          /\ thr' = [thr EXCEPT ![t].snap = snap, ![t].i = 1,
                                ![t].pc = IF snap = <<>> THEN "dexit" ELSE "dfire"]
    /\ UNCHANGED <<DictOnly, guard, present>>

\* observer(old_value, value) is called and returns
DFire(t) ==
    /\ thr[t].pc = "dfire"
    /\ LET me == thr[t]
       IN thr' = [thr EXCEPT ![t].fired = Append(@, <<me.snap[me.i], me.old, me.val>>),
                             ![t].i = me.i + 1,
                             ![t].pc = IF me.i + 1 > Len(me.snap) THEN "dexit" ELSE "dfire"]
    /\ UNCHANGED <<DictOnly, store, guard, present>>

\* self.__is_observing[key] = False
DExit(t) ==
    /\ thr[t].pc = "dexit"
    /\ guard' = [guard EXCEPT ![thr[t].ent][thr[t].key] = FALSE]
    /\ present' = [present EXCEPT ![thr[t].ent] = @ \cup {thr[t].key}]
    /\ thr' = Finish(t, "notify", "none")
    /\ UNCHANGED <<DictOnly, store>>

\* the containers after the observe calls made before the threads start
InitDictWriters ==
    /\ kind = "container"
    /\ InitChain

\* the threads write one key, of either container
DictWriteStep(t) ==
    \/ \E e \in Insts, v \in Vals : DCall(t, e, "k1", v)
    \/ DInit(t)
    \/ DTest(t)
    \/ DSetGuard(t)
    \/ DStore(t)
    \/ DFire(t)
    \/ DExit(t)

NextDictWriters == \E t \in Threads : DictWriteStep(t)

SpecDictWriters == InitDictWriters /\ [][NextDictWriters]_vars

\* ---- a class and a subclass: e1 is an instance of P, e2 of S(P)

\* the attributes of S as getattr(S, ...) and hasattr(S, ...) find them: those
\* S holds itself, then those of P
SubView ==
    [cls EXCEPT
        !.setattr = IF sub.setattr # "inherited" THEN sub.setattr ELSE cls.setattr,
        !.original_setattr = IF sub.original_setattr # "none" THEN sub.original_setattr
                             ELSE cls.original_setattr,
        !.has_refcount = sub.has_refcount \/ cls.has_refcount,
        !.observe_refcount = IF sub.has_refcount THEN sub.observe_refcount
                             ELSE cls.observe_refcount,
        !.observe_lock = sub.observe_lock \/ cls.observe_lock]

\* the state as the routines see it when the instance is an instance of S
SubWorld == [World EXCEPT !.cls = SubView]

\* hasattr(cls, '__original_setattr__') with cls = S: found on S or on P
SubHasOriginal == SubView.original_setattr # "none"

\* add_observer(s, k, cb): the tables of s, then the patch and the counter,
\* every assignment to cls.<attribute> making an attribute of S
SubObserve(k, cb) ==
    /\ stack = <<>>
    /\ SubView.observe_refcount < MaxRefcount
    /\ LET first == ~HasObserversAttr(World, "e2")
           w == AppendObserver(IF first THEN NewStorage(World, "e2") ELSE World,
                               "e2", k, cb)
           installed == IF SubHasOriginal THEN sub
                        ELSE [sub EXCEPT !.original_setattr = SubView.setattr,
                                         !.has_refcount = TRUE,
                                         !.observe_refcount = 0,
                                         !.observe_lock = TRUE,
                                         !.setattr = "new_setattr"]
           counter == IF installed.has_refcount THEN installed.observe_refcount
                      ELSE cls.observe_refcount
       IN /\ TotalRegistrations(w) <= MaxObs
          /\ hasObs' = w.hasObs
          /\ obs' = w.obs
          /\ hasGuard' = w.hasGuard
          /\ guard' = w.guard
          /\ sub' = IF first
                    THEN [installed EXCEPT !.has_refcount = TRUE,
                                           !.observe_refcount = counter + 1]
                    ELSE installed
    /\ last' = Observed("e2", k, cb)
    /\ UNCHANGED <<present, nest, thr, lk, kind, exists, store, plain, liveFin, cls, stack>>

\* remove_observers(s, attr): the table of s, then the counter and the restore
SubRemoveObservers(attr) ==
    /\ stack = <<>>
    /\ SubView.observe_refcount > 0 - MaxRefcount
    /\ IF ~HasObserversAttr(World, "e2")
       THEN /\ last' = NoOp
            /\ UNCHANGED <<obs, sub>>
       ELSE LET w == PopOrClear(World, "e2", attr)
                n == SubView.observe_refcount - 1
            IN /\ obs' = w.obs
               /\ IF TableEmpty(w.obs["e2"]) /\ SubView.has_refcount
                  THEN IF n <= 0 /\ SubHasOriginal
                       THEN IF sub.original_setattr = "none"
                            THEN \* del cls.__original_setattr__: S holds none
                                 /\ sub' = [sub EXCEPT !.has_refcount = TRUE,
                                                       !.observe_refcount = n,
                                                       !.setattr = SubView.original_setattr]
                                 /\ last' = [op |-> "remove", ent |-> "e2", key |-> attr,
                                             cb |-> "-", err |-> "AttributeError"]
                            ELSE /\ sub' = [sub EXCEPT !.setattr = sub.original_setattr,
                                                       !.original_setattr = "none",
                                                       !.has_refcount = FALSE,
                                                       !.observe_refcount = 0]
                                 /\ last' = NoOp
                       ELSE /\ sub' = [sub EXCEPT !.has_refcount = TRUE,
                                                  !.observe_refcount = n]
                            /\ last' = NoOp
                  ELSE /\ last' = NoOp
                       /\ UNCHANGED sub
    /\ UNCHANGED <<present, nest, thr, lk, kind, exists, store, plain, hasObs, hasGuard, guard,
                   liveFin, cls, stack>>

\* s.k = v: the routine S holds or inherits, up to the first observer call
SubWriteBegin(k, v) ==
    /\ stack = <<>>
    /\ LET e == "e2"
           mode == Route(SubWorld, e, k)
           snap == IF mode = "notify" THEN Snapshot(World, e, k) ELSE <<>>
           frame == [ent |-> e, key |-> k, val |-> v, mode |-> mode,
                     old |-> OldValue(e, k), prior |-> store[e][k],
                     snap |-> snap, i |-> 1,
                     fired |-> IF snap = <<>> THEN <<>> ELSE <<snap[1]>>,
                     pre |-> Registered(hasObs, obs, e, k),
                     calls |-> 0, stale |-> FALSE,
                     inner |-> FALSE,
                     after |-> IF last.op = "observe" /\ last.ent = e /\ last.key = k
                               THEN last.cb ELSE "-"]
       IN /\ store' = [store EXCEPT ![e][k] = v]
          /\ stack' = <<frame>>
          /\ IF mode = "notify"
             THEN /\ guard' = [guard EXCEPT ![e][k] = TRUE]
                  /\ hasGuard' = [hasGuard EXCEPT ![e] = TRUE]
             ELSE UNCHANGED <<guard, hasGuard>>
    /\ last' = NoOp
    /\ UNCHANGED <<present, nest, sub, thr, lk, kind, exists, plain, hasObs, obs, liveFin, cls>>

InitInherit ==
    /\ kind = "dict"
    /\ Init

\* the operations on the instance of P are those of the first sections
NextInherit ==
    \/ \E k \in Keys, v \in Vals : WriteBegin("e1", k, v)
    \/ CallbackReturn
    \/ WriteReturn
    \/ \E k \in Keys, cb \in Callbacks : Observe("e1", k, cb)
    \/ \E attr \in Keys \cup {None} : RemoveObservers("e1", attr)
    \/ \E k \in KeysOf("e2"), cb \in Callbacks : SubObserve(k, cb)
    \/ \E attr \in KeysOf("e2") \cup {None} : SubRemoveObservers(attr)
    \/ \E k \in KeysOf("e2"), v \in Vals : SubWriteBegin(k, v)

SpecInherit == InitInherit /\ [][NextInherit]_vars

\* ---- two classes, observers that write across them: e1 of A, e2 of B

\* the instance the observers of e write
Other(e) == IF e = "e1" THEN "e2" ELSE "e1"

\* cls.__observe_lock__ of the class of e: each class was patched once and
\* holds the RLock made then
LockOf(e) == IF e = "e1" THEN 1 ELSE 2

\* what the steps of these writes leave alone
CrossOnly == <<kind, exists, plain, hasObs, obs, liveFin, cls, stack, last, present, sub>>

InitCross ==
    /\ kind = "dict"
    /\ exists = [e \in Insts |-> TRUE]
    /\ store = [e \in Insts |-> NoAttrs]
    /\ plain = NoAttrs
    /\ LET w == add_observer(add_observer(FreshWorld, "e1", "k1", "A"), "e2", "k1", "B")
       IN /\ hasObs = w.hasObs
          /\ obs = w.obs
          /\ hasGuard = w.hasGuard
          /\ guard = w.guard
          /\ liveFin = w.liveFin
          /\ cls = add_observer(FreshWorld, "e1", "k1", "A").cls
    /\ lk = [NoLocks EXCEPT !.cur = 1, !.made = 2]
    /\ stack = <<>>
    /\ last = NoOp
    /\ thr = [t \in Threads |-> IdleThread]
    /\ present = [e \in Insts |-> {}]
    /\ sub = NoSub
    /\ nest = [t \in Threads |-> <<>>]

Inner(t) == nest[t][Len(nest[t])]

Pop(t) == [nest EXCEPT ![t] = SubSeq(@, 1, Len(@) - 1)]

\* the write of frame f is over: the with block gives the lock back when this
\* frame is the one that took it (an RLock counts the entries of its owner)
Leave(f) == IF f.took THEN [lk EXCEPT !.owner[LockOf(f.ent)] = "-"] ELSE lk

\* obj.k1 = v, by client code in thread t
XCall(t, e, v) ==
    /\ nest[t] = <<>>
    /\ thr[t].n < MaxThreadOps
    /\ thr' = [thr EXCEPT ![t].n = @ + 1]
    /\ nest' = [nest EXCEPT ![t] = <<[ent |-> e, val |-> v, pc |-> "acquire",
                                      took |-> FALSE, snap |-> <<>>, i |-> 0]>>]
    /\ UNCHANGED <<CrossOnly, store, hasGuard, guard, lk>>

\* with lock: the thread waits until no other thread holds the RLock of the class
XAcquire(t) ==
    /\ nest[t] # <<>>
    /\ Inner(t).pc = "acquire"
    /\ LET l == LockOf(Inner(t).ent)
       IN /\ lk.owner[l] \in {"-", t}
          /\ lk' = [lk EXCEPT !.owner[l] = t]
          /\ nest' = [nest EXCEPT ![t][Len(nest[t])].pc = "enter",
                                  ![t][Len(nest[t])].took = lk.owner[l] = "-"]
    /\ UNCHANGED <<CrossOnly, store, hasGuard, guard, thr>>

\* the guard test; then the flag, the old value, the store and the copy of the list
XEnter(t) ==
    /\ nest[t] # <<>>
    /\ Inner(t).pc = "enter"
    /\ LET f == Inner(t)
           e == f.ent
       IN /\ store' = [store EXCEPT ![e]["k1"] = f.val]
          /\ hasGuard' = [hasGuard EXCEPT ![e] = TRUE]
          /\ IF hasGuard[e] /\ guard[e]["k1"]
             THEN /\ nest' = Pop(t)
                  /\ lk' = Leave(f)
                  /\ UNCHANGED guard
             ELSE /\ guard' = [guard EXCEPT ![e]["k1"] = TRUE]
                  /\ nest' = [nest EXCEPT ![t][Len(nest[t])] =
                                 [f EXCEPT !.snap = Snapshot(World, e, "k1"), !.i = 1,
                                           !.pc = IF Snapshot(World, e, "k1") = <<>>
                                                  THEN "exit" ELSE "fire"]]
                  /\ UNCHANGED lk
    /\ UNCHANGED <<CrossOnly, thr>>

\* observer(old_value, value) is called: it writes the observed attribute of
\* the instance of the other class, and returns when that write has returned
XFire(t) ==
    /\ nest[t] # <<>>
    /\ Inner(t).pc = "fire"
    /\ LET f == Inner(t)
           g == [f EXCEPT !.i = f.i + 1,
                          !.pc = IF f.i + 1 > Len(f.snap) THEN "exit" ELSE "fire"]
       IN nest' = [nest EXCEPT ![t] =
                      Append([@ EXCEPT ![Len(@)] = g],
                             [ent |-> Other(f.ent), val |-> f.val, pc |-> "acquire",
                              took |-> FALSE, snap |-> <<>>, i |-> 0])]
    /\ UNCHANGED <<CrossOnly, store, hasGuard, guard, lk, thr>>

\* is_observing[name] = False; the with block ends
XExit(t) ==
    /\ nest[t] # <<>>
    /\ Inner(t).pc = "exit"
    /\ guard' = [guard EXCEPT ![Inner(t).ent]["k1"] = FALSE]
    /\ lk' = Leave(Inner(t))
    /\ nest' = Pop(t)
    /\ UNCHANGED <<CrossOnly, store, hasGuard, thr>>

CrossStep(t) ==
    \/ \E e \in Insts, v \in Vals : XCall(t, e, v)
    \/ XAcquire(t)
    \/ XEnter(t)
    \/ XFire(t)
    \/ XExit(t)

NextCross == \E t \in Threads : CrossStep(t)

\* fair scheduling: a thread that can take a step takes one in the end
SpecCross ==
    InitCross /\ [][NextCross]_vars /\ \A t \in Threads : WF_vars(CrossStep(t))

\* ---- the claims

\* a write made at the top level has run to its end and none of its observers
\* called an operation
QuietWriteDone == Len(stack) = 1 /\ Done(stack[1]) /\ stack[1].calls = 0

IsPrefix(s, t) == Len(s) <= Len(t) /\ \A i \in 1..Len(s) : s[i] = t[i]

\* C1: a write of V to K made right after observe(E, K, cb), by observers that
\* call nothing, has called cb once per registration of cb (at least once) and
\* every observer of K in order, with the value K held before as old value, and
\* K holds V; a write of the value K already holds is no exception.
C1_NotifiedOnce ==
    (QuietWriteDone /\ stack[1].after # "-") =>
        LET f == stack[1] IN
        /\ f.mode = "notify"
        /\ f.fired = f.pre
        /\ Count(f.fired, f.after) = Count(f.pre, f.after)
        /\ Count(f.fired, f.after) >= 1
        /\ f.prior # Absent => f.old = f.prior
        /\ store[f.ent][f.key] = f.val

\* C1 witness: a write of the value already held, made after observe on a
\* fixed-layout instance, has called the observer once.
C1_Witness ==
    /\ QuietWriteDone
    /\ kind = "slot_id"
    /\ stack[1].after # "-"
    /\ stack[1].prior = stack[1].val
    /\ stack[1].fired = <<stack[1].after>>

\* C2: observe(E, K, cb) keeps the earlier registrations of K and adds cb after
\* them, and a later write to K calls the registered observers in that order.
C2_RegistrationOrder ==
    [][/\ \A e \in Insts, cb \in Callbacks : \A k \in KeysOf(e) :
             Observe(e, k, cb) =>
                 Registered(hasObs', obs', e, k)
                     = Append(Registered(hasObs, obs, e, k), cb)
       /\ (QuietWriteDone /\ ~stack[1].inner => stack[1].fired = stack[1].pre)'
      ]_vars

\* C3: a write of K made by an observer of K from inside the notification of K
\* on the same instance is applied and notifies nobody; the outer pass calls
\* every observer of its snapshot.
C3_InnerWriteSilent ==
    \A i \in 1..Len(stack) :
        /\ stack[i].inner => stack[i].mode # "notify" /\ stack[i].fired = <<>>
        /\ Done(stack[i]) => stack[i].fired = stack[i].snap

\* C4: when no instance of the class holds an observer, the class routine is
\* the original one, the counter is gone, and a write notifies nobody.
C4_Restored ==
    (kind # "container" /\ \A e \in Insts : Registrations(World, e) = 0) =>
        /\ stack = <<>> =>
              /\ cls.setattr = "original"
              /\ cls.original_setattr = "none"
              /\ ~cls.has_refcount
        /\ QuietWriteDone =>
              /\ stack[1].fired = <<>>
              /\ store[stack[1].ent][stack[1].key] = stack[1].val

\* C5: an instance that holds an observer for K is notified on every write to
\* K, whatever was observed and removed on the other instances before.
C5_StillNotified ==
    (QuietWriteDone /\ stack[1].pre # <<>>) => stack[1].fired = stack[1].pre

\* C6: a write calls only observers registered on the instance written: the
\* observers called are the first registrations of that key on that instance.
C6_OwnObserversOnly ==
    \A i \in 1..Len(stack) : IsPrefix(stack[i].fired, stack[i].pre)

\* C6 witness: both instances are observed, by different observers, and a
\* write to the first has called its observer.
C6_Witness ==
    /\ QuietWriteDone
    /\ kind # "container"
    /\ stack[1].ent = "e1"
    /\ stack[1].key = "k1"
    /\ stack[1].fired = <<"A">>
    /\ Registered(hasObs, obs, "e2", "k1") = <<"B">>

\* C7: observe on the plain dict m makes a new ObservableDict with the entries
\* of m and cb registered on K; observe on an ObservableDict registers on it and
\* makes no new container; no step changes m.
C7_Wrapped ==
    [][/\ plain' = plain
       /\ \A e \in Insts, cb \in Callbacks : \A k \in KeysOf(e) :
             /\ ObserveWrap(e, k, cb) =>
                   /\ ~exists[e] /\ exists'[e]
                   /\ store'[e] = plain
                   /\ obs'[e] = [EmptyTable EXCEPT ![k] = [has |-> TRUE, lst |-> <<cb>>]]
             /\ (kind = "container" /\ Observe(e, k, cb)) =>
                   /\ exists' = exists
                   /\ store' = store
                   /\ Registered(hasObs', obs', e, k)
                         = Append(Registered(hasObs, obs, e, k), cb)
      ]_vars

\* C7 witness: the wrapped container was made from m, holds an observer, and
\* has been written since: its entries differ from those of m; the container
\* that was an ObservableDict from the start holds an observer too.
C7_Witness ==
    /\ kind = "container"
    /\ stack = <<>>
    /\ exists["e2"]
    /\ store["e2"] # plain
    /\ Registered(hasObs, obs, "e2", "k1") # <<>>
    /\ Registered(hasObs, obs, "e1", "k1") # <<>>

\* no observer registered where the removal looks
NothingToRemove(e, attr) ==
    IF attr = None THEN Registrations(World, e) = 0
    ELSE Registered(hasObs, obs, e, attr) = <<>>

\* C8: a removal that targets nothing registered returns false and changes no
\* observer table, no guard table and nothing on the class.
C8_RemovalOfNothing ==
    [][\A e \in Insts :
         /\ \A attr \in KeysOf(e) \cup {None} :
               (RemoveObservers(e, attr) /\ NothingToRemove(e, attr)) =>
                   /\ ~remove_observers(Called(World), e, attr).ret
                   /\ Tables(World)' = Tables(World)
         /\ (ClearAll(e) /\ NothingToRemove(e, None)) =>
               /\ ~clear_all(Called(World), e).ret
               /\ Tables(World)' = Tables(World)
         /\ \A k \in KeysOf(e), cb \in Callbacks :
               (RemoveObserver(e, k, cb)
                    /\ Count(Registered(hasObs, obs, e, k), cb) = 0) =>
                   /\ ~remove_observer(Called(World), e, k, cb).ret
                   /\ Tables(World)' = Tables(World)
      ]_vars

\* C9: remove_observers returns true exactly when the call removed a
\* registered observer.
C9_ReturnsWhetherRemoved ==
    [][\A e \in Insts : \A attr \in KeysOf(e) \cup {None} :
         RemoveObservers(e, attr) =>
             (remove_observers(Called(World), e, attr).ret
                 <=> Registrations(World, e)' < Registrations(World, e))
      ]_vars

\* C10 as stated: on a first assignment the old value passed to the observers
\* is a sentinel that no stored value equals.
C10_SentinelDistinct ==
    \A i \in 1..Len(stack) :
        (stack[i].fired # <<>> /\ stack[i].prior = Absent) => stack[i].old \notin Vals

\* C10 as amended: the old value passed is the value held before the write,
\* and None when there was none: a first assignment and an assignment over a
\* stored None pass the same old value.
C10_AbsentReadsNone ==
    \A i \in 1..Len(stack) :
        stack[i].fired # <<>> =>
            stack[i].old = (IF stack[i].prior = Absent THEN None ELSE stack[i].prior)

\* C10 witness: the observer of a first assignment has been called with None.
C10_Witness ==
    /\ stack # <<>>
    /\ Top.fired # <<>>
    /\ Top.prior = Absent
    /\ Top.old = None

\* C11: a write that notifies calls the observers registered for its key when
\* it began, in order, whatever its observers register or remove meanwhile
\* (the removal of every observer and of the interception included); the next
\* write takes its own copy of the list registered then.
C11_SnapshotFires ==
    \A i \in 1..Len(stack) :
        stack[i].mode = "notify" =>
            /\ stack[i].snap = stack[i].pre
            /\ IsPrefix(stack[i].fired, stack[i].pre)
            /\ Done(stack[i]) => stack[i].fired = stack[i].pre

\* C11 witness: the first of two observers removed every observer of the
\* instance, the interception went with them, and the second was still called.
C11_Witness ==
    /\ kind = "dict"
    /\ Len(stack) = 1
    /\ Done(stack[1])
    /\ stack[1].calls > 0
    /\ stack[1].fired = <<"A", "B">>
    /\ Registrations(World, stack[1].ent) = 0
    /\ cls.setattr = "original"

\* C12: when the i-th observer of a write has raised, the write has left the
\* routine with the exception (the code that made the write runs again, one
\* level up), the observers 1..i of its copy of the list are
\* the ones that were called and no later one, and the value written is still
\* stored (unless the observers themselves wrote the key again).
C12_RaiseAborts ==
    last.op = "raise" =>
        LET f == last.frame IN
        /\ f.mode = "notify"
        /\ f.i <= Len(f.snap)
        /\ f.fired = SubSeq(f.snap, 1, f.i)
        /\ last.cb = f.snap[f.i]
        /\ Len(stack) = last.depth - 1
        /\ f.calls = 0 => store[f.ent][f.key] = f.val

\* C12 witness: the first of two observers raised at top level; the new value
\* is stored and the second observer was not called.
C12_Witness ==
    /\ last.op = "raise"
    /\ stack = <<>>
    /\ last.frame.i = 1
    /\ Len(last.frame.snap) = 2
    /\ last.frame.fired = <<last.frame.snap[1]>>
    /\ last.frame.prior # last.frame.val
    /\ store[last.ent][last.key] = last.frame.val

\* the write of thread t has returned
Returned(t) == thr[t].pc = "idle" /\ thr[t].op = "write"

\* C13: with threads that only write, every write returns, and a write to an
\* observed attribute has called each observer of the attribute once, in
\* order, with the value this write stored, and has raised nothing.
C13_ConcurrentWritesNotify ==
    /\ [](\A t \in Threads :
            LET reg == Registered(hasObs, obs, thr[t].ent, thr[t].key)
            IN (Returned(t) /\ reg # <<>>) =>
                  /\ thr[t].err = "none"
                  /\ thr[t].mode = "notify"
                  /\ Len(thr[t].fired) = Len(reg)
                  /\ \A i \in 1..Len(reg) :
                        /\ thr[t].fired[i][1] = reg[i]
                        /\ thr[t].fired[i][3] = thr[t].val)
    /\ \A t \in Threads : (thr[t].pc # "idle") ~> (thr[t].pc = "idle")

\* C13 witness: one thread has called the observer and is about to leave the
\* routine while the other waits for the lock to write the same attribute.
C13_Witness ==
    /\ thr["t1"].pc = "exit"
    /\ Len(thr["t1"].fired) = 1
    /\ thr["t2"].pc = "acquire"
    /\ thr["t2"].lock = thr["t1"].lock
    /\ thr["t2"].ent = thr["t1"].ent
    /\ thr["t2"].key = thr["t1"].key
    /\ thr["t2"].val # thr["t1"].val

\* C14: the reclamation of a weak-referenceable slotted instance takes one from
\* the class counter when the instance still holds observers (and restores the
\* class routine at zero), and leaves the class alone when the observers of the
\* instance were removed before: one decrement for the instance in all.
C14_FinalizedOnce ==
    [][\A e \in Insts :
         Reclaim(e) =>
             cls' = IF Registrations(World, e) > 0 THEN DecrementRefcount(cls) ELSE cls
      ]_vars

\* the instances of the class that hold an observer
ObservedInstances == {e \in Insts : Registrations(World, e) > 0}

\* C15: the counter of the class is the number of its instances that hold at
\* least one observer (no counter: none does).
C15_CounterCountsInstances ==
    kind # "container" =>
        (IF cls.has_refcount THEN cls.observe_refcount ELSE 0)
            = Cardinality(ObservedInstances)

\* C16: an instance has an observer table or a guard table exactly when it
\* holds at least one observer.
C16_RecordIffObserved ==
    kind # "container" =>
        \A e \in Insts : (hasObs[e] \/ hasGuard[e]) <=> Registrations(World, e) > 0

\* C17: observe(E, K, cb) adds cb at the end of the list of K and changes
\* neither the list of another key of E nor a guard flag of E.
C17_ObserveOnlyAppends ==
    [][\A e \in Insts, cb \in Callbacks : \A k \in KeysOf(e) :
         Observe(e, k, cb) =>
             /\ Registered(hasObs', obs', e, k)
                   = Append(Registered(hasObs, obs, e, k), cb)
             /\ \A k2 \in Keys \ {k} :
                   Registered(hasObs', obs', e, k2) = Registered(hasObs, obs, e, k2)
             /\ guard'[e] = guard[e]
      ]_vars

\* the threads that are between the test for a saved original and the
\* assignment of the replacement routine
Installing == {t \in Threads : thr[t].pc \in {"save", "zero", "patch"}}

\* C18: at most one thread at a time installs the replacement routine, and the
\* original saved on the class is never the replacement routine.
C18_InstalledOnce ==
    /\ Cardinality(Installing) <= 1
    /\ cls.original_setattr # "new_setattr"

\* C19: a write never raises: it finds the saved original whatever another
\* thread removes meanwhile.
C19_WriteNeverFaults ==
    \A t \in Threads : thr[t].op = "write" => thr[t].err = "none"

\* the threads that are past the guard test of the replacement routine and
\* have not left it
Inside == {t \in Threads : thr[t].pc \in {"setguard", "store", "fire", "exit"}}

\* C20: at most one thread at a time is inside the read-old / write / notify
\* sequence of the replacement routine of the class.
C20_OneThreadInside == Cardinality(Inside) <= 1


\* the threads that run a notification pass for key k of container e: the flag
\* is theirs to clear
PassInFlight(e, k) ==
    {t \in Threads : /\ thr[t].pc \in {"dstore", "dfire", "dexit"}
                     /\ thr[t].ent = e
                     /\ thr[t].key = k}

\* C21: for a container written by several threads, two notification passes
\* for the same key of the same container are never in flight at the same
\* time, under any interleaving.
C21_OnePassPerKey ==
    \A e \in Insts : \A k \in KeysOf(e) : Cardinality(PassInFlight(e, k)) <= 1

\* C23: a guard flag is true only while a notification pass for its key is in
\* flight: once every write to K has returned, normally or because an observer
\* raised, the flag of K is false (and the next write to K notifies again).
C23_GuardOnlyInPass ==
    \A e \in Insts : \A k \in KeysOf(e) : guard[e][k] => InPass(stack, e, k)

\* C22 as stated, last clause: no key is notified more than once while one
\* outermost write is in progress.
C22_OncePerOutermostWrite ==
    \A i \in 1..Len(stack) : \A k \in Keys : stack[i].passes[k] <= 1

\* C22 as amended: the guard is per key.  A write made by an observer to a key
\* of the same entity that is not being notified is a full notification of
\* that key (every observer registered for it, with the value held before and
\* the new value); a write to a key that is being notified is stored and
\* notifies nobody.  The passes in flight are for distinct keys, so the nesting
\* of a chain is bounded by the number of keys and every chain of writes ends;
\* at most one pass per key is in flight at a time.
C22_GuardPerKey ==
    /\ [](\A i \in 1..Len(stack) :
            LET f == stack[i] IN
            /\ f.inner => f.mode = "through" /\ f.fired = <<>>
            /\ (~f.inner /\ f.pre # <<>>) =>
                  /\ f.mode = "notify"
                  /\ f.snap = f.pre
                  /\ f.old = (IF f.prior = Absent THEN None ELSE f.prior)
                  /\ IsPrefix(f.fired, f.pre)
                  /\ Done(f) => f.fired = f.pre
            /\ f.calls = 0 => store[f.ent][f.key] = f.val
            /\ \A j \in 1..Len(stack) :
                  (j # i /\ f.mode = "notify" /\ stack[j].mode = "notify")
                      => stack[j].key # f.key)
    /\ [](Len(stack) <= Cardinality(Keys) + 1)
    /\ (stack # <<>>) ~> (stack = <<>>)

\* C22 witness: the chain K1 -> K2 -> K1: the observer of K1 wrote K2, the
\* observer of K2 was called with K2's values and wrote K1, and that write was
\* stored without a notification.
C22_Witness ==
    /\ Len(stack) = 3
    /\ stack[1].key = "k1" /\ stack[1].mode = "notify"
    /\ stack[2].key = "k2" /\ stack[2].mode = "notify" /\ stack[2].fired = <<"B">>
    /\ stack[3].key = "k1" /\ stack[3].mode = "through"
    /\ store["e1"]["k1"] = stack[3].val
    /\ stack[3].val # stack[1].val

\* C24: while the instance of the subclass holds an observer for K, a write to
\* K on it notifies every observer of K, whatever was registered and removed
\* on instances of the parent class before, in either order.
C24_SubclassStillNotified ==
    \A i \in 1..Len(stack) :
        (stack[i].ent = "e2" /\ stack[i].pre # <<>>) =>
            /\ stack[i].mode = "notify"
            /\ Done(stack[i]) => stack[i].fired = stack[i].pre

\* C25: with an observer on an instance of A that writes an instance of B and
\* an observer on the instance of B that writes the instance of A, two threads
\* that write the two instances both return in the end, under fair scheduling:
\* every write a thread has begun returns.
C25_WritesReturn ==
    \A t \in Threads : (nest[t] # <<>>) ~> (nest[t] = <<>>)

====
